---- MODULE Spec2Model ----
(***************************************************************************)
(* Monetary ledger and paywall gate of Finder-Backend.                     *)
(*                                                                         *)
(* The store (MongoDB through Mongoose) holds the users, the transactions  *)
(* and the posts.  Every request handler is an async function: it runs to  *)
(* its next `await`, the awaited store or gateway operation is applied     *)
(* atomically, and the handler continues.  One action of this module is    *)
(* one awaited operation together with the synchronous code that follows   *)
(* it, so handlers of concurrent requests interleave exactly at their      *)
(* awaits.                                                                 *)
(*                                                                         *)
(* Mongoose's document.save() on a document that was loaded from the store *)
(* sends a $set of the paths modified in memory (a path assigned the value *)
(* it already has is not modified); save() on a new document validates it  *)
(* against the schema and inserts it.                                      *)
(***************************************************************************)
EXTENDS Integers, Sequences, FiniteSets, TLC

\* ---------------------------------------------------------------- bounds
MaxReq == 2                          \* requests received in one run

\* ------------------------------------------------------------ input sets
Users == {"u1", "u2"}                \* authenticated callers (req.userId)
\* The handlers treat every account alike: u1 is the account that pays in,
\* u2 the bystander (a caller without funds, who owns no transaction).
RechargeCallers == {"u1"}
Posts == {"p1"}                      \* existing posts (req.params.id)
\* req.body of a recharge: << amount, paymentMethod >>
RechargeInputs == {<<10, "bkash">>, <<10, "nagad">>, <<-10, "bkash">>, <<10001, "bkash">>,
                   <<10, "cash">>}
CallbackStatuses == {"success", "cancel"}       \* req.body.status
\* req.body of a profile update: << field, value >>
ProfileBodies == {<<"name", 1000>>, <<"accountBalance", 1000>>, <<"totalSpent", 1000>>}
ProfileCallers == {"u1"}
GatewayOutcomes == {"token_error", "error", "rejected", "0000"}

\* ------------------------------------------------------ program constants
MinRecharge == 10
MaxRecharge == 10000
ContactViewCost == 5
Undefined == 0 - 1                   \* a Number / Date path that is not set
NoSuchId == 0                        \* a transactionId no document has
\* req.body.amount of a callback: a figure the sender chose, which no stored
\* transaction carries
CallbackAmounts == {10000}
\* req.body.paymentID of a callback: the id of a payment of the sender's own,
\* which no stored transaction names
CallbackPaymentIds == {NoSuchId}

TypeEnum == {"recharge", "contact_view", "featured_post", "subscription", "refund"}
PaymentMethodEnum == {"bkash", "nagad", "rocket", "bank_transfer", "card", "admin_credit"}
StatusEnum == {"pending", "completed", "failed", "cancelled", "refunded"}
AcceptedMethods == {"bkash", "nagad", "rocket"}
\* the fields PUT /profile deletes from the body before the update
StrippedFields == {"password", "email", "accountBalance", "isVerified", "isBanned"}

VARIABLES
    users,      \* the users collection: user id -> account fields
    txs,        \* the transactions collection, in insertion order
    posts,      \* the posts collection: post id -> counters
    procs,      \* the requests received, in arrival order, each with its handler's state
    epoch,      \* requests served before the first one of procs
    opening     \* accountBalance of every user when the first request of procs arrived

vars == <<users, txs, posts, procs, epoch, opening>>

\* ------------------------------------------------------------- documents
NewUser == [accountBalance |-> 0, totalSpent |-> 0, totalEarned |-> 0]

\* a post of user o
NewPost(o) == [contactViews |-> 0, postedBy |-> o]

NoDoc == [transactionId |-> NoSuchId, user |-> "none", type |-> "none",
          amount |-> 0, paymentMethod |-> "none", status |-> "none",
          balanceBefore |-> Undefined, balanceAfter |-> Undefined,
          paymentId |-> Undefined, completedAt |-> Undefined,
          failedAt |-> Undefined, postId |-> "none"]

NoUser == [accountBalance |-> Undefined, totalSpent |-> Undefined,
           totalEarned |-> Undefined]

\* Date.now(): the number of requests received so far
Now == epoch + Len(procs)

\* Transaction.generateTransactionId() called by request number n:
\* 'FND' + Date.now() + nine characters drawn from Math.random()
generateTransactionId(n) == n

\* schema validation run by save()
ValidTransaction(d) ==
    /\ d.type \in TypeEnum
    /\ d.paymentMethod \in PaymentMethodEnum
    /\ d.status \in StatusEnum

\* Transaction.findOne({ transactionId }): index of the document, 0 if none
FindTx(id) ==
    IF \E k \in 1..Len(txs) : txs[k].transactionId = id
    THEN CHOOSE k \in 1..Len(txs) : txs[k].transactionId = id
    ELSE 0

\* ------------------------------------------------------ request handlers
NewProc(kind, caller) ==
    [kind |-> kind, caller |-> caller, amount |-> 0, method |-> "none",
     tid |-> NoSuchId, cbStatus |-> "none", post |-> "none",
     pc |-> "start", doc |-> NoDoc, usr |-> NoUser,
     dirty |-> {}, views |-> 0, bodyAmount |-> Undefined,
     resp |-> 0, msg |-> "none", delta |-> 0, found |-> "none",
     gateway |-> FALSE, returned |-> {},
     outcome |-> "none", called |-> FALSE, invoice |-> NoSuchId,
     newId |-> NoSuchId, paymentID |-> Undefined]

\* res.status(code).json({ message }): the handler has answered, and the
\* locals of the invocation (documents, token and gateway response) are gone
Respond(p, code, msg) ==
    [p EXCEPT !.pc = "done", !.resp = code, !.msg = msg,
              !.doc = NoDoc, !.usr = NoUser, !.dirty = {}, !.views = 0,
              !.outcome = "none", !.called = FALSE, !.invoice = NoSuchId]

\* The values generateTransactionId() can return to request n.  Date.now()
\* counts milliseconds and Math.random() is drawn anew at every call, so the
\* call returns a value of its own or, for requests that arrive within one
\* millisecond, the value a request of the same run has drawn before.
GeneratedIds(n) ==
    {generateTransactionId(epoch + n)} \cup
    {procs[j].newId : j \in {m \in 1..Len(procs) : procs[m].newId # NoSuchId}}

\* ------------------------------------------------------- model helpers
At(i, kind, pc) ==
    /\ i \in 1..Len(procs)
    /\ procs[i].kind = kind
    /\ procs[i].pc = pc

\* a save() that writes the whole document the handler holds, not only the
\* paths it modified
SaveTxWhole(d, paths) ==
    [k \in 1..Len(txs) |->
        IF txs[k].transactionId = d.transactionId THEN d ELSE txs[k]]

\* document.save() of a loaded document: $set of the modified paths
SaveTx(d, paths) ==
    [k \in 1..Len(txs) |->
        IF txs[k].transactionId = d.transactionId
        THEN [f \in DOMAIN txs[k] |-> IF f \in paths THEN d[f] ELSE txs[k][f]]
        ELSE txs[k]]

\* user.save() of a loaded user: $set of the modified paths
SaveUser(u, d, paths) ==
    [users EXCEPT ![u] =
        [f \in DOMAIN users[u] |-> IF f \in paths THEN d[f] ELSE users[u][f]]]

\* ------------------------------------------------- models/Transaction.js
\* transaction.markCompleted(): the assignments made before its save()
markCompleted(p) ==
    [p EXCEPT !.doc.status = "completed",
              !.doc.completedAt = Now,
              !.dirty = (IF p.doc.status # "completed" THEN {"status"} ELSE {})
                        \cup {"completedAt"}]

\* markFailed() without the assignment of the status
markFailedKeepStatus(p) ==
    [p EXCEPT !.doc.failedAt = Now,
              !.dirty = {"failedAt"}]

\* transaction.markFailed(reason): the assignments made before its save()
markFailed(p) ==
    [p EXCEPT !.doc.status = "failed",
              !.doc.failedAt = Now,
              !.dirty = (IF p.doc.status # "failed" THEN {"status"} ELSE {})
                        \cup {"failedAt"}]

\* -------------------------------------------------------- models/User.js
\* the check without the price: any balance that is not negative passes
canViewContactAnyBalance(u) == u.accountBalance >= 0

canViewContact(u) == u.accountBalance >= ContactViewCost

\* user.deductContactViewCost(): the assignments made before its save()
deductContactViewCost(u) ==
    [u EXCEPT !.accountBalance = u.accountBalance - ContactViewCost,
              !.totalSpent = u.totalSpent + ContactViewCost]

\* ------------------------------------------- POST /api/payments/recharge
\* the chain without the lower bound of isFloat({ min, max })
ValidRechargeNoMin(amount, method) ==
    /\ amount <= MaxRecharge
    /\ method \in AcceptedMethods

\* the chain without the upper bound of isFloat({ min, max })
ValidRechargeNoMax(amount, method) ==
    /\ amount >= MinRecharge
    /\ method \in AcceptedMethods

\* express-validator chain of the route
ValidRecharge(amount, method) ==
    /\ amount >= MinRecharge
    /\ amount <= MaxRecharge
    /\ method \in AcceptedMethods

\* the constructor call with balanceAfter initialised like balanceBefore
NewRechargeTransactionWithAfter(id, u, amount, method, balance) ==
    [NoDoc EXCEPT !.transactionId = id, !.user = u, !.type = "recharge",
                  !.amount = amount, !.paymentMethod = method,
                  !.status = "pending", !.balanceBefore = balance,
                  !.balanceAfter = balance]

\* the constructor call without the balance snapshot
NewRechargeTransactionNoSnapshot(id, u, amount, method, balance) ==
    [NoDoc EXCEPT !.transactionId = id, !.user = u, !.type = "recharge",
                  !.amount = amount, !.paymentMethod = method,
                  !.status = "pending"]

\* new Transaction({ ..., status: 'pending', balanceBefore: user.accountBalance })
NewRechargeTransaction(id, u, amount, method, balance) ==
    [NoDoc EXCEPT !.transactionId = id, !.user = u, !.type = "recharge",
                  !.amount = amount, !.paymentMethod = method,
                  !.status = "pending", !.balanceBefore = balance]

\* validation, User.findById, new Transaction(...)
RechargeStart(u, amount, method, id) ==
    /\ Len(procs) < MaxReq
    /\ LET p == [NewProc("recharge", u) EXCEPT !.amount = amount, !.method = method]
       IN  procs' = Append(procs,
             IF ~ValidRecharge(amount, method)
             THEN Respond(p, 400, "validation")
             ELSE [p EXCEPT !.pc = "r_insert",
                            !.usr = users[u],
                            !.newId = id,
                            !.doc = NewRechargeTransaction(id, u, amount, method,
                                                           users[u].accountBalance)])
    /\ UNCHANGED <<users, txs, posts, epoch, opening>>

\* the handler going on to the gateway without having saved the new document
RechargeInsertDeferred(i) ==
    /\ At(i, "recharge", "r_insert")
    /\ LET p == procs[i]
       IN  /\ txs' = txs
           /\ procs' = [procs EXCEPT ![i] =
                 IF p.method = "bkash"
                 THEN [p EXCEPT !.pc = "r_gateway"]
                 ELSE Respond(p, 200, "initiated")]
    /\ UNCHANGED <<users, posts, epoch, opening>>

\* await transaction.save() of the new document; the unique index on
\* transactionId rejects a document whose id is already stored
RechargeInsert(i) ==
    /\ At(i, "recharge", "r_insert")
    /\ LET p == procs[i]
       IN  IF ValidTransaction(p.doc) /\ FindTx(p.doc.transactionId) = 0
           THEN /\ txs' = Append(txs, p.doc)
                /\ procs' = [procs EXCEPT ![i] =
                      IF p.method = "bkash"
                      THEN [p EXCEPT !.pc = "r_gateway"]
                      ELSE Respond(p, 200, "initiated")]
           ELSE /\ txs' = txs
                /\ procs' = [procs EXCEPT ![i] = Respond(p, 500, "server")]
    /\ UNCHANGED <<users, posts, epoch, opening>>

\* await getBkashToken(), await axios.post(.../create)
RechargeGateway(i) ==
    /\ At(i, "recharge", "r_gateway")
    /\ \E o \in GatewayOutcomes :
         LET p == [procs[i] EXCEPT !.gateway = TRUE, !.outcome = o,
                                   !.called = (o # "token_error"),
                                   !.invoice = IF o # "token_error"
                                               THEN procs[i].doc.transactionId
                                               ELSE NoSuchId]
         IN  procs' = [procs EXCEPT ![i] =
               IF o \in {"token_error", "error"}
               THEN [markFailed(p) EXCEPT !.pc = "r_failed"]
               ELSE [p EXCEPT !.pc = "r_payment",
                              !.doc.paymentId =
                                 IF o = "0000" THEN p.doc.transactionId ELSE Undefined,
                              !.dirty = IF o = "0000" THEN {"paymentId"} ELSE {}]]
    /\ UNCHANGED <<users, txs, posts, epoch, opening>>

\* await transaction.save() with the payment details
RechargeSavePayment(i) ==
    /\ At(i, "recharge", "r_payment")
    /\ txs' = SaveTx(procs[i].doc, procs[i].dirty)
    /\ procs' = [procs EXCEPT ![i] = Respond(procs[i], 200, "initiated")]
    /\ UNCHANGED <<users, posts, epoch, opening>>

\* await transaction.markFailed('bKash payment creation failed')
RechargeMarkFailed(i) ==
    /\ At(i, "recharge", "r_failed")
    /\ txs' = SaveTx(procs[i].doc, procs[i].dirty)
    /\ procs' = [procs EXCEPT ![i] = Respond(procs[i], 500, "gateway")]
    /\ UNCHANGED <<users, posts, epoch, opening>>

Recharge ==
    \/ \E u \in RechargeCallers, b \in RechargeInputs :
          \E id \in GeneratedIds(Len(procs) + 1) : RechargeStart(u, b[1], b[2], id)
    \/ \E i \in 1..MaxReq : RechargeInsert(i)
    \/ \E i \in 1..MaxReq : RechargeGateway(i)
    \/ \E i \in 1..MaxReq : RechargeSavePayment(i)
    \/ \E i \in 1..MaxReq : RechargeMarkFailed(i)

\* ------------------------------------------- POST /api/payments/callback
\* transactionId values a request can name: every stored one and an unknown one
KnownIds == {txs[k].transactionId : k \in 1..Len(txs)} \cup {NoSuchId}

\* the assignment without the addition
CreditNothing(balance, amount) == balance

\* user.accountBalance += transaction.amount
Credit(balance, amount) == balance + amount

\* the amount taken from the request body when it carries one
CreditedAmountFromBody(p) ==
    IF p.bodyAmount # Undefined THEN p.bodyAmount ELSE p.doc.amount

\* the amount a callback credits: transaction.amount of the loaded document
CreditedAmount(p) == p.doc.amount

\* await Transaction.findOne({ transactionId }), then the branch on req.body.status
CallbackStart(tid, st, amt, pid) ==
    /\ Len(procs) < MaxReq
    /\ LET p == [NewProc("callback", "none") EXCEPT !.tid = tid, !.cbStatus = st,
                                                    !.bodyAmount = amt,
                                                    !.paymentID = pid]
           k == FindTx(tid)
       IN  procs' = Append(procs,
             IF k = 0
             THEN Respond(p, 404, "not_found")
             ELSE LET q == [p EXCEPT !.doc = txs[k], !.found = txs[k].status]
                  IN  IF st = "success"
                      THEN [q EXCEPT !.pc = "c_gateway"]
                      ELSE [markFailed(q) EXCEPT !.pc = "c_cancel"])
    /\ UNCHANGED <<users, txs, posts, epoch, opening>>

\* the execute call issued whether or not the token grant succeeded
CallbackGatewayWithoutToken(i) ==
    /\ At(i, "callback", "c_gateway")
    /\ \E o \in GatewayOutcomes :
         LET p == [procs[i] EXCEPT !.gateway = TRUE, !.outcome = o,
                                   !.called = TRUE]
         IN  procs' = [procs EXCEPT ![i] =
               CASE o = "0000" -> [p EXCEPT !.pc = "c_user"]
                 [] o = "rejected" -> [markFailed(p) EXCEPT !.pc = "c_rejected"]
                 [] OTHER -> [markFailed(p) EXCEPT !.pc = "c_error"]]
    /\ UNCHANGED <<users, txs, posts, epoch, opening>>

\* await getBkashToken(), await axios.post(.../execute)
CallbackGateway(i) ==
    /\ At(i, "callback", "c_gateway")
    /\ \E o \in GatewayOutcomes :
         LET p == [procs[i] EXCEPT !.gateway = TRUE, !.outcome = o,
                                   !.called = (o # "token_error")]
         IN  procs' = [procs EXCEPT ![i] =
               CASE o = "0000" -> [p EXCEPT !.pc = "c_user"]
                 [] o = "rejected" -> [markFailed(p) EXCEPT !.pc = "c_rejected"]
                 [] OTHER -> [markFailed(p) EXCEPT !.pc = "c_error"]]
    /\ UNCHANGED <<users, txs, posts, epoch, opening>>

\* await User.findById(transaction.user); user.accountBalance += amount
CallbackFindUser(i) ==
    /\ At(i, "callback", "c_user")
    /\ LET p == procs[i]
           u == users[p.doc.user]
       IN  procs' = [procs EXCEPT ![i] =
             [p EXCEPT !.pc = "c_credit",
                       !.usr = [u EXCEPT !.accountBalance =
                                   Credit(u.accountBalance, CreditedAmount(p))]]]
    /\ UNCHANGED <<users, txs, posts, epoch, opening>>

\* await user.save(); markCompleted() up to its save()
CallbackSaveUser(i) ==
    /\ At(i, "callback", "c_credit")
    /\ LET p == procs[i]
       IN  /\ users' = SaveUser(p.doc.user, p.usr, {"accountBalance"})
           /\ procs' = [procs EXCEPT ![i] =
                 [markCompleted(p) EXCEPT !.pc = "c_complete",
                                          !.delta = CreditedAmount(p)]]
    /\ UNCHANGED <<txs, posts, epoch, opening>>

\* the save() of markCompleted; transaction.balanceAfter = user.accountBalance
CallbackMarkCompleted(i) ==
    /\ At(i, "callback", "c_complete")
    /\ LET p == procs[i]
       IN  /\ txs' = SaveTx(p.doc, p.dirty)
           /\ procs' = [procs EXCEPT ![i] =
                 [p EXCEPT !.pc = "c_after",
                           !.doc.balanceAfter = p.usr.accountBalance,
                           !.dirty = {"balanceAfter"}]]
    /\ UNCHANGED <<users, posts, epoch, opening>>

\* await transaction.save(); res.json(...)
CallbackSaveAfter(i) ==
    /\ At(i, "callback", "c_after")
    /\ txs' = SaveTx(procs[i].doc, procs[i].dirty)
    /\ procs' = [procs EXCEPT ![i] = Respond(procs[i], 200, "completed")]
    /\ UNCHANGED <<users, posts, epoch, opening>>

\* the same step taking the amount back from the owner's balance
CallbackMarkFailedWithReversal(i) ==
    /\ i \in 1..Len(procs)
    /\ procs[i].kind = "callback"
    /\ procs[i].pc \in {"c_rejected", "c_error", "c_cancel"}
    /\ txs' = SaveTx(procs[i].doc, procs[i].dirty)
    /\ users' = [users EXCEPT ![procs[i].doc.user].accountBalance =
                     users[procs[i].doc.user].accountBalance - procs[i].doc.amount]
    /\ procs' = [procs EXCEPT ![i] =
          CASE procs[i].pc = "c_rejected" -> Respond(procs[i], 400, "execution_failed")
            [] procs[i].pc = "c_error" -> Respond(procs[i], 500, "execution_failed")
            [] OTHER -> Respond(procs[i], 200, "cancelled")]
    /\ UNCHANGED <<posts, epoch, opening>>

\* the save() of markFailed in the three failure branches, and their answers
CallbackMarkFailed(i) ==
    /\ i \in 1..Len(procs)
    /\ procs[i].kind = "callback"
    /\ procs[i].pc \in {"c_rejected", "c_error", "c_cancel"}
    /\ txs' = SaveTx(procs[i].doc, procs[i].dirty)
    /\ procs' = [procs EXCEPT ![i] =
          CASE procs[i].pc = "c_rejected" -> Respond(procs[i], 400, "execution_failed")
            [] procs[i].pc = "c_error" -> Respond(procs[i], 500, "execution_failed")
            [] OTHER -> Respond(procs[i], 200, "cancelled")]
    /\ UNCHANGED <<users, posts, epoch, opening>>

Callback ==
    \/ \E t \in KnownIds, s \in CallbackStatuses, a \in CallbackAmounts,
          pid \in CallbackPaymentIds :
          CallbackStart(t, s, a, pid)
    \/ \E i \in 1..MaxReq : CallbackGateway(i)
    \/ \E i \in 1..MaxReq : CallbackFindUser(i)
    \/ \E i \in 1..MaxReq : CallbackSaveUser(i)
    \/ \E i \in 1..MaxReq : CallbackMarkCompleted(i)
    \/ \E i \in 1..MaxReq : CallbackSaveAfter(i)
    \/ \E i \in 1..MaxReq : CallbackMarkFailed(i)

\* the lookup by transactionId alone, as the callback does it
VerifyStartAnyOwner(u, tid) ==
    /\ Len(procs) < MaxReq
    /\ LET p == [NewProc("verify", u) EXCEPT !.tid = tid]
           k == FindTx(tid)
       IN  procs' = Append(procs,
             IF k = 0
             THEN Respond(p, 404, "not_found")
             ELSE LET q == [p EXCEPT !.doc = txs[k], !.found = txs[k].status]
                  IN  CASE q.doc.status = "completed" -> Respond(q, 200, "already_completed")
                        [] q.doc.paymentMethod = "bkash" /\ q.doc.status = "pending" ->
                              [q EXCEPT !.pc = "v_gateway"]
                        [] OTHER -> Respond(q, 200, "state"))
    /\ UNCHANGED <<users, txs, posts, epoch, opening>>

\* the lookup that asks the gateway about every pending transaction, whatever
\* its payment method
VerifyStartAnyMethod(u, tid) ==
    /\ Len(procs) < MaxReq
    /\ LET p == [NewProc("verify", u) EXCEPT !.tid = tid]
           k == FindTx(tid)
       IN  procs' = Append(procs,
             IF k = 0 \/ (k # 0 /\ txs[k].user # u)
             THEN Respond(p, 404, "not_found")
             ELSE LET q == [p EXCEPT !.doc = txs[k], !.found = txs[k].status]
                  IN  CASE q.doc.status = "completed" -> Respond(q, 200, "already_completed")
                        [] q.doc.status = "pending" -> [q EXCEPT !.pc = "v_gateway"]
                        [] OTHER -> Respond(q, 200, "state"))
    /\ UNCHANGED <<users, txs, posts, epoch, opening>>

\* the lookup without the completed guard, asking the gateway about every
\* bKash transaction whatever its status
VerifyStartRequery(u, tid) ==
    /\ Len(procs) < MaxReq
    /\ LET p == [NewProc("verify", u) EXCEPT !.tid = tid]
           k == FindTx(tid)
       IN  procs' = Append(procs,
             IF k = 0 \/ (k # 0 /\ txs[k].user # u)
             THEN Respond(p, 404, "not_found")
             ELSE LET q == [p EXCEPT !.doc = txs[k], !.found = txs[k].status]
                  IN  CASE q.doc.paymentMethod = "bkash" ->
                              [q EXCEPT !.pc = "v_gateway"]
                        [] OTHER -> Respond(q, 200, "state"))
    /\ UNCHANGED <<users, txs, posts, epoch, opening>>

\* --------------------------------------------- POST /api/payments/verify
\* await Transaction.findOne({ transactionId, user }), then the status guards
VerifyStart(u, tid) ==
    /\ Len(procs) < MaxReq
    /\ LET p == [NewProc("verify", u) EXCEPT !.tid = tid]
           k == FindTx(tid)
       IN  procs' = Append(procs,
             IF k = 0 \/ (k # 0 /\ txs[k].user # u)
             THEN Respond(p, 404, "not_found")
             ELSE LET q == [p EXCEPT !.doc = txs[k], !.found = txs[k].status]
                  IN  CASE q.doc.status = "completed" -> Respond(q, 200, "already_completed")
                        [] q.doc.paymentMethod = "bkash" /\ q.doc.status = "pending" ->
                              [q EXCEPT !.pc = "v_gateway"]
                        [] OTHER -> Respond(q, 200, "state"))
    /\ UNCHANGED <<users, txs, posts, epoch, opening>>

\* the gateway step whose failure branch neither answers nor goes on
VerifyGatewaySilent(i) ==
    /\ At(i, "verify", "v_gateway")
    /\ \E o \in GatewayOutcomes :
         LET p == [procs[i] EXCEPT !.gateway = TRUE, !.outcome = o,
                                   !.called = (o # "token_error")]
         IN  procs' = [procs EXCEPT ![i] =
               IF o = "0000"
               THEN [p EXCEPT !.pc = "v_user"]
               ELSE [p EXCEPT !.pc = "v_failed"]]
    /\ UNCHANGED <<users, txs, posts, epoch, opening>>

\* await getBkashToken(), await axios.post(.../payment/status)
VerifyGateway(i) ==
    /\ At(i, "verify", "v_gateway")
    /\ \E o \in GatewayOutcomes :
         LET p == [procs[i] EXCEPT !.gateway = TRUE, !.outcome = o,
                                   !.called = (o # "token_error")]
         IN  procs' = [procs EXCEPT ![i] =
               IF o = "0000"
               THEN [p EXCEPT !.pc = "v_user"]
               ELSE Respond(p, 200, "state")]
    /\ UNCHANGED <<users, txs, posts, epoch, opening>>

\* await User.findById(transaction.user); user.accountBalance += amount
VerifyFindUser(i) ==
    /\ At(i, "verify", "v_user")
    /\ LET p == procs[i]
           u == users[p.doc.user]
       IN  procs' = [procs EXCEPT ![i] =
             [p EXCEPT !.pc = "v_credit",
                       !.usr = [u EXCEPT !.accountBalance =
                                   Credit(u.accountBalance, p.doc.amount)]]]
    /\ UNCHANGED <<users, txs, posts, epoch, opening>>

\* await user.save(); markCompleted() up to its save()
VerifySaveUser(i) ==
    /\ At(i, "verify", "v_credit")
    /\ LET p == procs[i]
       IN  /\ users' = SaveUser(p.doc.user, p.usr, {"accountBalance"})
           /\ procs' = [procs EXCEPT ![i] =
                 [markCompleted(p) EXCEPT !.pc = "v_complete",
                                          !.delta = p.doc.amount]]
    /\ UNCHANGED <<txs, posts, epoch, opening>>

\* the save() of markCompleted; transaction.balanceAfter = user.accountBalance
VerifyMarkCompleted(i) ==
    /\ At(i, "verify", "v_complete")
    /\ LET p == procs[i]
       IN  /\ txs' = SaveTx(p.doc, p.dirty)
           /\ procs' = [procs EXCEPT ![i] =
                 [p EXCEPT !.pc = "v_after",
                           !.doc.balanceAfter = p.usr.accountBalance,
                           !.dirty = {"balanceAfter"}]]
    /\ UNCHANGED <<users, posts, epoch, opening>>

\* await transaction.save(); res.json(...)
VerifySaveAfter(i) ==
    /\ At(i, "verify", "v_after")
    /\ txs' = SaveTx(procs[i].doc, procs[i].dirty)
    /\ procs' = [procs EXCEPT ![i] = Respond(procs[i], 200, "state")]
    /\ UNCHANGED <<users, posts, epoch, opening>>

Verify ==
    \/ \E u \in Users, t \in KnownIds : VerifyStart(u, t)
    \/ \E i \in 1..MaxReq : VerifyGateway(i)
    \/ \E i \in 1..MaxReq : VerifyFindUser(i)
    \/ \E i \in 1..MaxReq : VerifySaveUser(i)
    \/ \E i \in 1..MaxReq : VerifyMarkCompleted(i)
    \/ \E i \in 1..MaxReq : VerifySaveAfter(i)

\* --------------------------------------------- POST /api/posts/:id/contact
NewContactViewTransaction(id, u, post, balance) ==
    [NoDoc EXCEPT !.transactionId = id, !.user = u, !.type = "contact_view",
                  !.amount = ContactViewCost,
                  !.paymentMethod = "account_balance",
                  !.status = "completed", !.postId = post,
                  !.balanceBefore = balance + ContactViewCost,
                  !.balanceAfter = balance,
                  !.completedAt = Now]

\* await Post.findById(req.params.id)
UnlockStart(u, post) ==
    /\ Len(procs) < MaxReq
    /\ procs' = Append(procs,
          [NewProc("unlock", u) EXCEPT !.post = post, !.pc = "u_user",
                                       !.views = posts[post].contactViews])
    /\ UNCHANGED <<users, txs, posts, epoch, opening>>

\* the same step with the caller's own posts free of charge
UnlockFindUserOwnerFree(i) ==
    /\ At(i, "unlock", "u_user")
    /\ LET p == procs[i]
           u == users[p.caller]
       IN  procs' = [procs EXCEPT ![i] =
             CASE posts[p.post].postedBy = p.caller -> Respond(p, 200, "contact_info")
               [] ~canViewContact(u) -> Respond(p, 400, "insufficient_balance")
               [] u.accountBalance >= ContactViewCost ->
                     [p EXCEPT !.pc = "u_debit", !.usr = deductContactViewCost(u)]
               [] OTHER -> Respond(p, 500, "error_message")]
    /\ UNCHANGED <<users, txs, posts, epoch, opening>>

\* await User.findById(req.userId); canViewContact(); deductContactViewCost()
\* up to its save()
UnlockFindUser(i) ==
    /\ At(i, "unlock", "u_user")
    /\ LET p == procs[i]
           u == users[p.caller]
       IN  procs' = [procs EXCEPT ![i] =
             CASE ~canViewContact(u) -> Respond(p, 400, "insufficient_balance")
               [] u.accountBalance >= ContactViewCost ->
                     [p EXCEPT !.pc = "u_debit", !.usr = deductContactViewCost(u)]
               [] OTHER -> Respond(p, 500, "error_message")]
    /\ UNCHANGED <<users, txs, posts, epoch, opening>>

\* the debit that also books the price as earnings of the post's owner
UnlockSaveUserPayingOwner(i) ==
    /\ At(i, "unlock", "u_debit")
    /\ \E id \in GeneratedIds(i) :
         LET p == procs[i]
             o == posts[p.post].postedBy
             w == SaveUser(p.caller, p.usr, {"accountBalance", "totalSpent"})
         IN  /\ users' = [w EXCEPT ![o].totalEarned = w[o].totalEarned + ContactViewCost]
             /\ procs' = [procs EXCEPT ![i] =
                   [p EXCEPT !.pc = "u_record",
                             !.delta = 0 - ContactViewCost,
                             !.newId = id,
                             !.doc = NewContactViewTransaction(id,
                                        p.caller, p.post, p.usr.accountBalance)]]
    /\ UNCHANGED <<txs, posts, epoch, opening>>

\* the save() of deductContactViewCost; new Transaction(...)
UnlockSaveUser(i) ==
    /\ At(i, "unlock", "u_debit")
    /\ \E id \in GeneratedIds(i) :
         LET p == procs[i]
         IN  /\ users' = SaveUser(p.caller, p.usr, {"accountBalance", "totalSpent"})
             /\ procs' = [procs EXCEPT ![i] =
                   [p EXCEPT !.pc = "u_record",
                             !.delta = 0 - ContactViewCost,
                             !.newId = id,
                             !.doc = NewContactViewTransaction(id,
                                        p.caller, p.post, p.usr.accountBalance)]]
    /\ UNCHANGED <<txs, posts, epoch, opening>>

\* the same step with a catch block that gives the price back
UnlockRecordWithRefund(i) ==
    /\ i \in 1..Len(procs)
    /\ procs[i].kind = "unlock"
    /\ procs[i].pc \in {"u_record", "u_views"}
    /\ LET p == procs[i]
       IN  CASE p.pc = "u_record" /\ ValidTransaction(p.doc) ->
                  /\ txs' = Append(txs, p.doc)
                  /\ posts' = posts
                  /\ users' = users
                  /\ procs' = [procs EXCEPT ![i] = [p EXCEPT !.pc = "u_views"]]
             [] p.pc = "u_record" /\ ~ValidTransaction(p.doc) ->
                  /\ txs' = txs
                  /\ posts' = posts
                  /\ users' = [users EXCEPT ![p.caller].accountBalance =
                                   users[p.caller].accountBalance + ContactViewCost,
                                             ![p.caller].totalSpent =
                                   users[p.caller].totalSpent - ContactViewCost]
                  /\ procs' = [procs EXCEPT ![i] = Respond(p, 500, "error_message")]
             [] OTHER ->
                  /\ txs' = txs
                  /\ posts' = [posts EXCEPT ![p.post].contactViews = p.views + 1]
                  /\ users' = users
                  /\ procs' = [procs EXCEPT ![i] = Respond(p, 200, "contact_info")]
    /\ UNCHANGED <<epoch, opening>>

\* await transaction.save(); await post.incrementContactViews(); res.json(...)
\* a rejected save() goes to the catch block, which answers 500 with error.message
UnlockRecord(i) ==
    /\ i \in 1..Len(procs)
    /\ procs[i].kind = "unlock"
    /\ procs[i].pc \in {"u_record", "u_views"}
    /\ LET p == procs[i]
       IN  CASE p.pc = "u_record" /\ ValidTransaction(p.doc) ->
                  /\ txs' = Append(txs, p.doc)
                  /\ posts' = posts
                  /\ procs' = [procs EXCEPT ![i] = [p EXCEPT !.pc = "u_views"]]
             [] p.pc = "u_record" /\ ~ValidTransaction(p.doc) ->
                  /\ txs' = txs
                  /\ posts' = posts
                  /\ procs' = [procs EXCEPT ![i] = Respond(p, 500, "error_message")]
             [] OTHER ->
                  /\ txs' = txs
                  /\ posts' = [posts EXCEPT ![p.post].contactViews = p.views + 1]
                  /\ procs' = [procs EXCEPT ![i] = Respond(p, 200, "contact_info")]
    /\ UNCHANGED <<users, epoch, opening>>

Unlock ==
    \/ \E u \in Users, p \in Posts : UnlockStart(u, p)
    \/ \E i \in 1..MaxReq : UnlockFindUser(i)
    \/ \E i \in 1..MaxReq : UnlockSaveUser(i)
    \/ \E i \in 1..MaxReq : UnlockRecord(i)

\* the query without the user filter
TransactionHistoryUnscoped(u) ==
    /\ Len(procs) < MaxReq
    /\ procs' = Append(procs,
          [Respond(NewProc("history", u), 200, "transactions") EXCEPT
              !.returned = {txs[k].transactionId : k \in 1..Len(txs)}])
    /\ UNCHANGED <<users, txs, posts, epoch, opening>>

\* ------------------------------------------ GET /api/payments/transactions
\* Transaction.find({ user: req.userId }).lean(); the optional type and status
\* filters and the paging of the query only narrow the list that is returned
TransactionHistory(u) ==
    /\ Len(procs) < MaxReq
    /\ procs' = Append(procs,
          [Respond(NewProc("history", u), 200, "transactions") EXCEPT
              !.returned = {txs[k].transactionId :
                               k \in {n \in 1..Len(txs) : txs[n].user = u}}])
    /\ UNCHANGED <<users, txs, posts, epoch, opening>>

\* --------------------------------------- GET /api/payments/transaction/:id
\* Transaction.findOne({ transactionId: req.params.id, user: req.userId }).lean()
TransactionDetail(u, tid) ==
    /\ Len(procs) < MaxReq
    /\ LET p == [NewProc("detail", u) EXCEPT !.tid = tid]
           k == FindTx(tid)
       IN  procs' = Append(procs,
             IF k = 0 \/ (k # 0 /\ txs[k].user # u)
             THEN Respond(p, 404, "not_found")
             ELSE [Respond(p, 200, "transaction") EXCEPT !.returned = {tid}])
    /\ UNCHANGED <<users, txs, posts, epoch, opening>>

Read ==
    \/ \E u \in Users : TransactionHistory(u)
    \/ \E u \in Users, t \in KnownIds : TransactionDetail(u, t)

\* ------------------------------------------------- PUT /api/auth/profile
\* delete updates.<stripped field>; await User.findByIdAndUpdate(req.userId,
\* { $set: updates }); of the user's fields only the three account fields are
\* part of this model
Profile(u, field, value) ==
    /\ Len(procs) < MaxReq
    /\ users' = IF field \in DOMAIN users[u] /\ field \notin StrippedFields
                THEN [users EXCEPT ![u][field] = value]
                ELSE users
    /\ procs' = Append(procs, Respond(NewProc("profile", u), 200, "profile_updated"))
    /\ UNCHANGED <<txs, posts, epoch, opening>>

ProfileUpdate == \E u \in ProfileCallers, b \in ProfileBodies : Profile(u, b[1], b[2])

Next == Recharge \/ Callback \/ Verify \/ Unlock \/ Read \/ ProfileUpdate

\* ----------------------------------------------------- starting states
\* the store after construction: no transaction, every account at its defaults
InitEmpty ==
    /\ users = [u \in Users |-> NewUser]
    /\ txs = <<>>
    /\ posts = [p \in Posts |-> NewPost("u2")]
    /\ procs = <<>>
    /\ epoch = 0
    /\ opening = [u \in Users |-> users[u].accountBalance]

\* The store after three served requests: u1 initiated a bkash recharge of 10
\* (request 1), the callback completed it (request 2), and u1 initiated a
\* second bkash recharge of 10, still pending (request 3).  The post on offer
\* is u1's own.
RechargedUsers ==
    [u \in Users |->
        IF u = "u1" THEN [NewUser EXCEPT !.accountBalance = MinRecharge] ELSE NewUser]

RechargedTxs ==
    << [NewRechargeTransaction(generateTransactionId(1), "u1", MinRecharge, "bkash", 0)
          EXCEPT !.status = "completed", !.paymentId = generateTransactionId(1),
                 !.completedAt = 2, !.balanceAfter = MinRecharge],
       [NewRechargeTransaction(generateTransactionId(3), "u1", MinRecharge, "bkash",
                               MinRecharge)
          EXCEPT !.paymentId = generateTransactionId(3)] >>

InitRecharged ==
    /\ users = RechargedUsers
    /\ txs = RechargedTxs
    /\ posts = [p \in Posts |-> NewPost("u1")]
    /\ procs = <<>>
    /\ epoch = 3
    /\ opening = [u \in Users |-> users[u].accountBalance]

\* The same accounts and transactions after a fourth request, with the post on
\* offer being u2's: u1 unlocked its contact once.
SpentUsers ==
    [u \in Users |->
        IF u = "u1" THEN deductContactViewCost(RechargedUsers[u]) ELSE NewUser]

InitSpent ==
    /\ users = SpentUsers
    /\ txs = RechargedTxs
    /\ posts = [p \in Posts |-> NewPost("u2")]
    /\ procs = <<>>
    /\ epoch = 4
    /\ opening = [u \in Users |-> users[u].accountBalance]

\* the stores above as states of a run from the empty store
RechargedReached ==
    /\ users = RechargedUsers /\ txs = RechargedTxs
    /\ epoch = 0 /\ Len(procs) = 3
    /\ \A i \in 1..Len(procs) : procs[i].pc = "done"

SpentReached ==
    /\ users = SpentUsers /\ txs = RechargedTxs
    /\ epoch = 0 /\ Len(procs) = 4
    /\ \A i \in 1..Len(procs) : procs[i].pc = "done"

Init == InitEmpty \/ InitRecharged

Spec == Init /\ [][Next]_vars

SpecSpent == InitSpent /\ [][Next]_vars

SpecEmpty == InitEmpty /\ [][Next]_vars

\* the continuation of handler i after the call it awaits has returned or
\* raised
Continue(i) ==
    \/ RechargeInsert(i) \/ RechargeGateway(i) \/ RechargeSavePayment(i)
    \/ RechargeMarkFailed(i)
    \/ CallbackGateway(i) \/ CallbackFindUser(i) \/ CallbackSaveUser(i)
    \/ CallbackMarkCompleted(i) \/ CallbackSaveAfter(i) \/ CallbackMarkFailed(i)
    \/ VerifyGateway(i) \/ VerifyFindUser(i) \/ VerifySaveUser(i)
    \/ VerifyMarkCompleted(i) \/ VerifySaveAfter(i)
    \/ UnlockFindUser(i) \/ UnlockSaveUser(i) \/ UnlockRecord(i)

\* every awaited store or gateway call settles, and the event loop then runs
\* the handler that awaits it
SpecLive == Init /\ [][Next]_vars /\ \A i \in 1..MaxReq : WF_vars(Continue(i))

\* ======================================================== the properties
Terminal == {"completed", "failed", "cancelled"}

Done(i) == procs[i].pc = "done"

\* the transactionId that request i generated for the transaction it built
CreatedId(i) == procs[i].newId

\* no handler other than i and j has written a balance
OnlyWriters(i, j) == \A k \in 1..Len(procs) : k \in {i, j} \/ procs[k].delta = 0

\* the owner of the transaction a callback or verify request names
Owner(i) == txs[FindTx(procs[i].tid)].user

SignedAmount(t) == IF t.type = "contact_view" THEN 0 - t.amount ELSE t.amount

RECURSIVE LedgerSum(_, _)
\* sum of the signed amounts of the completed transactions of u among the first n
LedgerSum(u, n) ==
    IF n = 0 THEN 0
    ELSE LedgerSum(u, n - 1) +
         (IF txs[n].user = u /\ txs[n].status = "completed"
          THEN SignedAmount(txs[n]) ELSE 0)

\* C1: two concurrent unlock requests of a user whose balance is exactly the
\* price end with one success (200), one insufficient-balance rejection (400)
\* and a balance of 0.
C1_OneUnlockWins ==
    \A i, j \in 1..Len(procs) :
        ( /\ i < j
          /\ procs[i].kind = "unlock" /\ procs[j].kind = "unlock"
          /\ procs[i].caller = procs[j].caller
          /\ opening[procs[i].caller] = ContactViewCost
          /\ OnlyWriters(i, j)
          /\ Done(i) /\ Done(j) )
        => /\ {procs[i].resp, procs[j].resp} = {200, 400}
           /\ users[procs[i].caller].accountBalance = 0

\* C2: a success callback delivered again, after the first delivery credited the
\* balance and completed the transaction, credits nothing.
C2_CallbackCreditsOnce ==
    \A i, j \in 1..Len(procs) :
        ( /\ i < j
          /\ procs[i].kind = "callback" /\ procs[j].kind = "callback"
          /\ procs[i].tid = procs[j].tid
          /\ procs[i].cbStatus = "success" /\ procs[j].cbStatus = "success"
          /\ procs[i].found = "pending" /\ procs[i].delta > 0
          /\ procs[j].found = "completed" )
        => procs[j].delta = 0

\* C3: a callback and a verify that both found one transaction pending (they
\* run concurrently) credit the balance once: not both of them write, and the owner ends with the
\* opening balance plus the amount.
C3_CallbackVerifyRace ==
    \A i, j \in 1..Len(procs) :
        ( /\ procs[i].kind = "callback" /\ procs[j].kind = "verify"
          /\ procs[i].tid = procs[j].tid
          /\ procs[i].found = "pending" /\ procs[j].found = "pending"
          /\ OnlyWriters(i, j)
          /\ Done(i) /\ Done(j)
          /\ procs[i].delta + procs[j].delta > 0 )
        => /\ ~(procs[i].delta > 0 /\ procs[j].delta > 0)
           /\ users[Owner(i)].accountBalance =
                 opening[Owner(i)] + txs[FindTx(procs[i].tid)].amount

\* C4: a step of a callback or verify handler that found its transaction in a
\* terminal status changes no transaction and no account.
C4_TerminalIsFinal ==
    [][ \A i \in 1..Len(procs) :
          ( /\ procs[i].kind \in {"callback", "verify"}
            /\ procs[i].found \in Terminal
            /\ procs'[i] # procs[i] )
          => (txs' = txs /\ users' = users) ]_vars

\* C5: every user's accountBalance is the sum of the signed amounts of that
\* user's completed transactions.
C5_BalanceIsLedgerSum ==
    \A u \in Users : users[u].accountBalance = LedgerSum(u, Len(txs))

\* C6: no user's accountBalance is negative.
C6_BalanceNonNegative ==
    \A u \in Users : users[u].accountBalance >= 0

\* C6 witness: two concurrent unlocks have both debited and the balance is 0.
C6_Witness ==
    \E i, j \in 1..Len(procs) :
        /\ i < j
        /\ procs[i].kind = "unlock" /\ procs[j].kind = "unlock"
        /\ procs[i].caller = procs[j].caller
        /\ opening[procs[i].caller] = ContactViewCost
        /\ procs[i].delta < 0 /\ procs[j].delta < 0
        /\ users[procs[i].caller].accountBalance = 0

\* C7: a recharge completion of amount a and an unlock debit on one account
\* with balance b, in any interleaving, leave it at b + a - 5.
C7_NoLostUpdate ==
    \A i, j \in 1..Len(procs) :
        ( /\ procs[i].kind \in {"callback", "verify"} /\ procs[j].kind = "unlock"
          /\ procs[i].found = "pending"
          /\ procs[i].delta > 0 /\ procs[j].delta < 0
          /\ Owner(i) = procs[j].caller
          /\ opening[procs[j].caller] >= ContactViewCost
          /\ OnlyWriters(i, j)
          /\ Done(i) /\ Done(j) )
        => users[procs[j].caller].accountBalance =
              opening[procs[j].caller] + procs[i].delta - ContactViewCost

\* C8: for every completed transaction, balanceAfter - balanceBefore is the
\* signed amount.
C8_CompletedDelta ==
    \A k \in 1..Len(txs) :
        txs[k].status = "completed"
        => txs[k].balanceAfter - txs[k].balanceBefore = SignedAmount(txs[k])

\* C9: for every pending transaction, balanceAfter is unset.
C9_PendingHasNoBalanceAfter ==
    \A k \in 1..Len(txs) :
        txs[k].status = "pending" => txs[k].balanceAfter = Undefined

\* C9 witness: a handler has credited the owner and is about to store the
\* completion of a transaction that is still pending in the store.
C9_Witness ==
    \E i \in 1..Len(procs) :
        /\ procs[i].pc \in {"c_complete", "v_complete"}
        /\ FindTx(procs[i].tid) # 0
        /\ txs[FindTx(procs[i].tid)].status = "pending"
        /\ txs[FindTx(procs[i].tid)].balanceAfter = Undefined
        /\ procs[i].delta > 0

\* C10: every unlock that debited the caller has stored one completed
\* contact_view transaction of the caller for the post, valid under the schema,
\* with balanceAfter = balanceBefore - 5.
C10_UnlockRecorded ==
    \A i \in 1..Len(procs) :
        ( procs[i].kind = "unlock" /\ procs[i].delta < 0 /\ Done(i) )
        => \E k \in 1..Len(txs) :
              /\ txs[k].transactionId = CreatedId(i)
              /\ txs[k].type = "contact_view"
              /\ txs[k].user = procs[i].caller
              /\ txs[k].postId = procs[i].post
              /\ txs[k].status = "completed"
              /\ txs[k].balanceAfter = txs[k].balanceBefore - ContactViewCost
              /\ ValidTransaction(txs[k])

\* C11: an unlock request by a user whose balance covers the price, for an
\* existing post, answers with the contact information (200), and an answer
\* that carries the contact information is sent only after the debit and the
\* transaction record are in the store.
C11_UnlockReturnsContact ==
    \A i \in 1..Len(procs) :
        /\ ( procs[i].kind = "unlock" /\ procs[i].delta < 0 /\ Done(i) )
           => ( procs[i].resp = 200 /\ procs[i].msg = "contact_info" )
        /\ ( procs[i].kind = "unlock" /\ procs[i].msg = "contact_info" )
           => /\ procs[i].delta < 0
              /\ \E k \in 1..Len(txs) :
                    txs[k].transactionId = CreatedId(i)

\* the store fields an unlock request can touch
UnlockFrame == users' = users /\ txs' = txs /\ posts' = posts

\* C12: an unlock request by a user whose balance is below the price is
\* answered 400 "insufficient balance", and no step of it changes a balance,
\* a totalSpent, the transactions or the post's contactViews.
C12_InsufficientBalanceNoEffect ==
    [][ /\ ( Len(procs') > Len(procs) /\ procs'[Len(procs')].kind = "unlock" )
           => UnlockFrame
        /\ \A i \in 1..Len(procs) :
             ( /\ At(i, "unlock", "u_user")
               /\ procs'[i] # procs[i]
               /\ users[procs[i].caller].accountBalance < ContactViewCost )
             => /\ procs'[i].pc = "done"
                /\ procs'[i].resp = 400
                /\ procs'[i].msg = "insufficient_balance"
                /\ procs'[i].delta = 0
                /\ UnlockFrame ]_vars

\* an unlock request of a user with less than the price has been rejected
C12_Witness ==
    \E i \in 1..Len(procs) :
        /\ procs[i].kind = "unlock" /\ Done(i)
        /\ procs[i].resp = 400 /\ procs[i].msg = "insufficient_balance"
        /\ users[procs[i].caller].accountBalance < ContactViewCost
        /\ users[procs[i].caller].accountBalance = opening[procs[i].caller]

\* C13: when an unlock fails after its debit was stored, the failing step gives
\* nothing back (the balance stays reduced by the price, totalSpent raised by
\* it) and the request is answered with an error that carries no contact
\* information.
C13_DebitNotRolledBack ==
    [][ \A i \in 1..Len(procs) :
          ( /\ procs[i].kind = "unlock"
            /\ procs[i].delta < 0
            /\ procs[i].pc # "done" /\ procs'[i].pc = "done"
            /\ procs'[i].resp # 200 )
          => /\ users' = users
             /\ procs'[i].delta = 0 - ContactViewCost
             /\ procs'[i].resp >= 400
             /\ procs'[i].msg # "contact_info" ]_vars

\* an unlock has failed after its debit, and the account is still 5 short
C13_Witness ==
    \E i \in 1..Len(procs) :
        /\ procs[i].kind = "unlock" /\ Done(i)
        /\ procs[i].delta < 0
        /\ procs[i].resp = 500
        /\ OnlyWriters(i, i)
        /\ users[procs[i].caller].accountBalance =
              opening[procs[i].caller] - ContactViewCost

\* no other request names the transaction that request i names
OnlyRequestFor(i) ==
    \A j \in 1..Len(procs) : j = i \/ procs[j].tid # procs[i].tid

\* C14: completion of a recharge is one atomic step: in no state has a handler
\* credited the owner's balance with the amount of a transaction whose status
\* is not completed, and in no state is a transaction completed by a handler
\* that has not credited the balance.
C14_CompletionAtomic ==
    \A i \in 1..Len(procs) :
        ( /\ procs[i].kind \in {"callback", "verify"}
          /\ procs[i].found = "pending"
          /\ OnlyRequestFor(i) )
        => LET t == txs[FindTx(procs[i].tid)]
           IN  /\ procs[i].delta > 0 => t.status = "completed"
               /\ t.status = "completed" => procs[i].delta > 0

\* C15: a callback credits the amount stored on the transaction, whatever the
\* request body carries: the balance it writes is the balance it read plus the
\* stored amount, and no step changes the amount of a stored transaction.
C15_CreditIsStoredAmount ==
    [][ /\ \A k \in 1..Len(txs) : txs'[k].amount = txs[k].amount
        /\ \A i \in 1..Len(procs) :
             /\ ( At(i, "callback", "c_user") /\ procs'[i].pc = "c_credit" )
                => procs'[i].usr.accountBalance =
                      users[Owner(i)].accountBalance + txs[FindTx(procs[i].tid)].amount
             /\ ( At(i, "callback", "c_credit") /\ procs'[i].pc = "c_complete" )
                => /\ users'[Owner(i)].accountBalance = procs[i].usr.accountBalance
                   /\ procs'[i].delta = txs[FindTx(procs[i].tid)].amount
                   /\ \A u \in Users \ {Owner(i)} : users'[u] = users[u] ]_vars

\* a callback whose body carried another amount than the stored one has credited
C15_Witness ==
    \E i \in 1..Len(procs) :
        /\ procs[i].kind = "callback" /\ Done(i)
        /\ procs[i].found = "pending"
        /\ procs[i].resp = 200 /\ procs[i].msg = "completed"
        /\ procs[i].bodyAmount # Undefined
        /\ procs[i].bodyAmount # txs[FindTx(procs[i].tid)].amount
        /\ procs[i].delta = txs[FindTx(procs[i].tid)].amount
        /\ OnlyWriters(i, i)
        /\ users[Owner(i)].accountBalance =
              opening[Owner(i)] + txs[FindTx(procs[i].tid)].amount

\* C16: the callback endpoint answers every delivery with a 200-class response
\* (unknown transaction, gateway rejection, gateway error, cancellation,
\* duplicate delivery), and a delivery it acknowledges as completed leaves the
\* transaction completed.
C16_CallbackAnswers200 ==
    \A i \in 1..Len(procs) :
        ( procs[i].kind = "callback" /\ Done(i) )
        => /\ procs[i].resp \in 200..299
           /\ ( procs[i].msg = "completed" /\ OnlyRequestFor(i) )
              => txs[FindTx(procs[i].tid)].status = "completed"

\* C17: a verify or transaction-detail request that names a transaction of
\* another user is answered 404 "not found", exactly as one that names no
\* transaction at all, calls no gateway, and changes no transaction and no
\* balance.
C17_ForeignIsNotFound ==
    [][ Len(procs') > Len(procs) =>
          LET p == procs'[Len(procs')]
              k == FindTx(p.tid)
          IN  ( /\ p.kind \in {"verify", "detail"}
                /\ (k = 0 \/ (k # 0 /\ txs[k].user # p.caller)) )
              => /\ p.pc = "done"
                 /\ p.resp = 404 /\ p.msg = "not_found"
                 /\ ~p.gateway
                 /\ p.returned = {}
                 /\ p.delta = 0
                 /\ users' = users /\ txs' = txs ]_vars

\* a verify and a detail request for another user's transaction were refused
C17_Witness ==
    \E i, j \in 1..Len(procs) :
        /\ procs[i].kind = "verify" /\ procs[j].kind = "detail"
        /\ \A n \in {i, j} :
             /\ FindTx(procs[n].tid) # 0
             /\ txs[FindTx(procs[n].tid)].user # procs[n].caller
             /\ txs[FindTx(procs[n].tid)].status = "pending"
             /\ procs[n].resp = 404
             /\ ~procs[n].gateway

\* C18: transaction history and transaction detail return only transactions
\* of the caller and change no transaction, no balance and no post.
C18_ReadsScoped ==
    [][ Len(procs') > Len(procs) =>
          LET p == procs'[Len(procs')]
          IN  p.kind \in {"history", "detail"}
              => /\ p.pc = "done"
                 /\ \A id \in p.returned :
                       FindTx(id) # 0 /\ txs[FindTx(id)].user = p.caller
                 /\ p.delta = 0
                 /\ users' = users /\ txs' = txs /\ posts' = posts ]_vars

\* a history that left out another user's transactions, and a detail that
\* returned the caller's own transaction
C18_Witness ==
    \E i, j \in 1..Len(procs) :
        /\ procs[i].kind = "history" /\ procs[i].resp = 200
        /\ \E k \in 1..Len(txs) : txs[k].user # procs[i].caller
        /\ procs[j].kind = "detail" /\ procs[j].resp = 200
        /\ procs[j].returned = {procs[j].tid}
        /\ txs[FindTx(procs[j].tid)].user = procs[j].caller

\* C19: a recharge request whose amount is outside 10..10000 or whose method
\* is not bkash, nagad or rocket is answered 400 "validation failed" without a
\* transaction being created or the gateway being called, and every stored
\* recharge transaction has an amount within 10..10000.
C19_InvalidRechargeRejected ==
    /\ \A i \in 1..Len(procs) :
         ( /\ procs[i].kind = "recharge"
           /\ \/ procs[i].amount < MinRecharge
              \/ procs[i].amount > MaxRecharge
              \/ procs[i].method \notin {"bkash", "nagad", "rocket"} )
         => /\ Done(i)
            /\ procs[i].resp = 400 /\ procs[i].msg = "validation"
            /\ ~procs[i].gateway
            /\ CreatedId(i) = NoSuchId
            /\ procs[i].doc = NoDoc
    /\ \A k \in 1..Len(txs) :
         txs[k].type = "recharge"
         => txs[k].amount >= MinRecharge /\ txs[k].amount <= MaxRecharge

\* a request above the range and a request with an unknown method were refused
C19_Witness ==
    \E i, j \in 1..Len(procs) :
        /\ procs[i].kind = "recharge" /\ procs[j].kind = "recharge"
        /\ procs[i].amount > MaxRecharge /\ procs[i].method \in AcceptedMethods
        /\ procs[j].amount >= MinRecharge /\ procs[j].amount <= MaxRecharge
        /\ procs[j].method \notin AcceptedMethods
        /\ procs[i].resp = 400 /\ procs[j].resp = 400
        /\ \A k \in 1..Len(txs) : txs[k].transactionId <= epoch

\* C20: initiating a recharge creates a pending transaction whose
\* balanceBefore is the balance the handler read from the user's account, and
\* no step of the handler changes an accountBalance, a totalSpent or a
\* totalEarned, whether the gateway's create call succeeds or fails.
C20_RechargeInitiation ==
    [][ \A i \in 1..Len(procs') :
          ( /\ procs'[i].kind = "recharge"
            /\ (i > Len(procs) \/ procs'[i] # procs[i]) )
          => /\ users' = users
             /\ ( i > Len(procs) /\ procs'[i].pc = "r_insert" )
                => /\ procs'[i].doc.status = "pending"
                   /\ procs'[i].doc.balanceBefore =
                         users[procs'[i].caller].accountBalance
             /\ Len(txs') > Len(txs)
                => /\ txs'[Len(txs')].status = "pending"
                   /\ txs'[Len(txs')].user = procs[i].caller
                   /\ txs'[Len(txs')].balanceBefore = procs[i].usr.accountBalance
                   /\ txs'[Len(txs')].balanceAfter = Undefined ]_vars

\* one initiated recharge whose create call succeeded and one whose create
\* call failed, with the account as it was
C20_Witness ==
    \E i, j \in 1..Len(procs) :
        /\ procs[i].kind = "recharge" /\ procs[j].kind = "recharge"
        /\ procs[i].resp = 200 /\ procs[i].gateway
        /\ procs[j].resp = 500 /\ procs[j].msg = "gateway"
        /\ \A n \in {i, j} :
             /\ FindTx(CreatedId(n)) # 0
             /\ txs[FindTx(CreatedId(n))].balanceBefore =
                   opening[procs[n].caller]
        /\ txs[FindTx(CreatedId(i))].status = "pending"
        /\ txs[FindTx(CreatedId(j))].status = "failed"
        /\ opening["u1"] > 0
        /\ users = [u \in Users |-> [users[u] EXCEPT !.accountBalance = opening[u]]]

\* the gateway outcomes that are a failure: a call that raised, or an answer
\* with another statusCode than the success code
GatewayFailures == {"token_error", "error", "rejected"}

\* C21: with no other balance change on the account, a bkash recharge of
\* amount a initiated at balance b, whose create call succeeded and whose
\* execute call returned the success code, ends with the transaction
\* completed, balanceBefore = b, balanceAfter = b + a and the balance b + a.
C21_RechargeCompletes ==
    \A i, j \in 1..Len(procs) :
        ( /\ procs[i].kind = "recharge" /\ Done(i)
          /\ procs[i].method = "bkash" /\ procs[i].resp = 200
          /\ procs[j].kind = "callback" /\ Done(j)
          /\ procs[j].tid = CreatedId(i)
          /\ procs[j].cbStatus = "success"
          /\ procs[j].resp = 200
          /\ OnlyRequestFor(j)
          /\ OnlyWriters(j, j) )
        => LET t == txs[FindTx(CreatedId(i))]
               b == opening[procs[i].caller]
               a == procs[i].amount
           IN  /\ procs[j].msg = "completed"
               /\ procs[j].delta = a
               /\ t.status = "completed"
               /\ t.amount = a
               /\ t.balanceBefore = b
               /\ t.balanceAfter = b + a
               /\ users[procs[i].caller].accountBalance = b + a

\* the spec's case: a recharge initiated at balance 0 was completed by its callback
C21_Witness ==
    \E i, j \in 1..Len(procs) :
        /\ procs[i].kind = "recharge" /\ Done(i)
        /\ procs[i].method = "bkash" /\ procs[i].resp = 200
        /\ procs[j].kind = "callback" /\ Done(j)
        /\ procs[j].tid = CreatedId(i)
        /\ procs[j].cbStatus = "success" /\ procs[j].resp = 200
        /\ txs[FindTx(CreatedId(i))].paymentId # Undefined
        /\ opening[procs[i].caller] = 0
        /\ users[procs[i].caller].accountBalance = procs[i].amount

\* C22: when the gateway call made for a pending transaction fails in the
\* callback (the token grant or the execute call raises, or execute answers
\* another statusCode than the success code) or in the recharge initiation
\* (the token grant or the create call raises), the invocation ends with the
\* transaction stored as failed and has not completed it.
C22_GatewayFailureMarksFailed ==
    [][ \A i \in 1..Len(procs) :
          ( /\ procs[i].pc # "done" /\ procs'[i].pc = "done"
            /\ \/ /\ procs[i].kind = "callback"
                  /\ procs[i].found = "pending"
                  /\ procs[i].outcome \in GatewayFailures
               \/ /\ procs[i].kind = "recharge"
                  /\ procs[i].outcome \in {"token_error", "error"} )
          => LET k == FindTx(procs[i].doc.transactionId)
             IN  /\ k # 0
                 /\ txs'[k].status = "failed"
                 /\ txs'[k].failedAt # Undefined
                 /\ txs'[k].completedAt = txs[k].completedAt
                 /\ procs'[i].delta = 0
                 /\ procs'[i].resp >= 400 ]_vars

\* a callback whose execute call was rejected and a recharge whose create call
\* raised have each left their transaction failed
C22_Witness ==
    \E i, j \in 1..Len(procs) :
        /\ procs[i].kind = "callback" /\ Done(i)
        /\ procs[i].found = "pending"
        /\ procs[i].cbStatus = "success" /\ procs[i].resp = 400
        /\ txs[FindTx(procs[i].tid)].status = "failed"
        /\ procs[j].kind = "recharge" /\ Done(j)
        /\ procs[j].resp = 500 /\ procs[j].msg = "gateway"
        /\ txs[FindTx(CreatedId(j))].status = "failed"

\* C23: in the verify path, when the gateway's status query for a pending
\* transaction raises (timeout or error) or answers without the success code,
\* the transaction is marked failed.
C23_VerifyFailureMarksFailed ==
    \A i \in 1..Len(procs) :
        ( /\ procs[i].kind = "verify" /\ Done(i)
          /\ procs[i].found = "pending"
          /\ procs[i].gateway
          /\ procs[i].delta = 0
          /\ OnlyRequestFor(i) )
        => txs[FindTx(procs[i].tid)].status = "failed"

\* C24: every step that marks a transaction failed (create failure, execute
\* rejection, execute error, cancellation callback) leaves the accountBalance,
\* totalSpent and totalEarned of every user unchanged.
C24_FailedTouchesNoBalance ==
    [][ /\ ( \E k \in 1..Len(txs) :
               txs'[k].status = "failed" /\ txs[k].status # "failed" )
           => users' = users
        /\ \A i \in 1..Len(procs) :
             ( /\ procs[i].pc \in {"r_failed", "c_rejected", "c_error", "c_cancel"}
               /\ procs'[i] # procs[i] )
             => users' = users ]_vars

\* a cancellation callback has marked the funded user's pending transaction failed
C24_Witness ==
    \E i \in 1..Len(procs) :
        /\ procs[i].kind = "callback" /\ Done(i)
        /\ procs[i].found = "pending"
        /\ procs[i].msg = "cancelled"
        /\ txs[FindTx(procs[i].tid)].status = "failed"
        /\ txs[FindTx(procs[i].tid)].amount > 0
        /\ users[Owner(i)].accountBalance = opening[Owner(i)]
        /\ opening[Owner(i)] > 0

\* C25: transaction identifiers are unique and never reused: no two stored
\* transactions have the same transactionId, and no two requests (recharge or
\* unlock, concurrent or not) are handed the same identifier by
\* generateTransactionId().
C25_IdsUnique ==
    /\ \A k, l \in 1..Len(txs) :
         k # l => txs[k].transactionId # txs[l].transactionId
    /\ \A i, j \in 1..Len(procs) :
         ( i # j /\ CreatedId(i) # NoSuchId /\ CreatedId(j) # NoSuchId )
         => CreatedId(i) # CreatedId(j)

\* C26: a callback that reports a cancellation (a status other than
\* 'success') for a pending transaction moves it to status cancelled.
C26_CancelIsCancelled ==
    \A i \in 1..Len(procs) :
        ( /\ procs[i].kind = "callback" /\ Done(i)
          /\ procs[i].cbStatus # "success"
          /\ procs[i].found = "pending"
          /\ OnlyRequestFor(i) )
        => txs[FindTx(procs[i].tid)].status = "cancelled"

\* C27: a user's accountBalance, totalSpent and totalEarned change only through
\* transaction completion (the credit of a callback or verify, the debit of an
\* unlock); no other request, the profile update with any body included,
\* changes any of the three.
C27_OnlyCompletionWrites ==
    [][ \A u \in Users :
          users'[u] # users[u]
          => \E i \in 1..Len(procs) :
                /\ procs[i].pc \in {"c_credit", "v_credit", "u_debit"}
                /\ procs'[i].pc # procs[i].pc
                /\ u = (IF procs[i].kind = "unlock"
                        THEN procs[i].caller ELSE procs[i].doc.user) ]_vars

\* the answers whose message is a fixed text of the handler
FixedMessages ==
    {"validation", "server", "gateway", "not_found", "execution_failed",
     "insufficient_balance", "initiated", "completed", "cancelled",
     "already_completed", "state", "contact_info"}

\* C28: every internal fault in the recharge, callback, verify and unlock
\* handlers is answered with a fixed generic message: no response carries the
\* text of an internal exception.
C28_GenericErrors ==
    \A i \in 1..Len(procs) :
        ( /\ procs[i].kind \in {"recharge", "callback", "verify", "unlock"}
          /\ Done(i) )
        => /\ procs[i].msg \in FixedMessages
           /\ procs[i].msg # "error_message"

\* C29: in recharge initiation the transaction is in the store before the
\* gateway's create call is issued, the merchantInvoiceNumber sent is that
\* transaction's transactionId, and after a successful create the transaction
\* stores the gateway's paymentID and is still pending.
C29_PersistBeforeCreate ==
    [][ \A i \in 1..Len(procs) :
          /\ ( At(i, "recharge", "r_gateway") /\ procs'[i] # procs[i] )
             => LET k == FindTx(CreatedId(i))
                IN  /\ k # 0
                    /\ txs[k].user = procs[i].caller
                    /\ txs[k].amount = procs[i].amount
                    /\ (\A j \in 1..Len(procs) : procs[j].tid # CreatedId(i))
                       => txs[k].status = "pending"
                    /\ procs'[i].called
                       => procs'[i].invoice = txs[k].transactionId
          /\ ( /\ At(i, "recharge", "r_payment") /\ procs'[i] # procs[i]
               /\ procs[i].outcome = "0000" )
             => LET k == FindTx(CreatedId(i))
                IN  /\ procs[i].doc.paymentId # Undefined
                    /\ txs'[k].paymentId = procs[i].doc.paymentId
                    /\ txs'[k].status = txs[k].status
                    /\ (\A j \in 1..Len(procs) : procs[j].tid # CreatedId(i))
                       => txs'[k].status = "pending" ]_vars

\* a recharge whose create call succeeded has stored the paymentID on its
\* pending transaction
C29_Witness ==
    \E i \in 1..Len(procs) :
        /\ procs[i].kind = "recharge" /\ Done(i)
        /\ procs[i].resp = 200
        /\ procs[i].gateway
        /\ FindTx(CreatedId(i)) # 0
        /\ txs[FindTx(CreatedId(i))].paymentId # Undefined
        /\ txs[FindTx(CreatedId(i))].status = "pending"

\* C30: a create, execute or status-query call is issued only after a token
\* grant of the same invocation has succeeded (an invocation starts without a
\* token), and an invocation whose token grant failed issues no such call.
C30_TokenBeforeCall ==
    \A i \in 1..Len(procs) :
        /\ procs[i].called
           => /\ procs[i].gateway
              /\ procs[i].outcome \notin {"none", "token_error"}
        /\ procs[i].outcome = "token_error"
           => ~procs[i].called /\ procs[i].invoice = NoSuchId
        /\ ~procs[i].gateway
           => ~procs[i].called /\ procs[i].outcome = "none"
        /\ procs[i].pc \in {"start", "r_insert", "r_gateway", "c_gateway",
                             "v_gateway", "u_user", "u_debit", "u_record"}
           => ~procs[i].called /\ procs[i].outcome = "none"

\* one invocation whose token grant failed, next to one that issued its call
C30_Witness ==
    \E i, j \in 1..Len(procs) :
        /\ procs[i].kind = "callback" /\ procs[i].pc = "c_error"
        /\ procs[i].outcome = "token_error" /\ ~procs[i].called
        /\ procs[j].gateway /\ procs[j].called
        /\ procs[j].outcome = "0000"

\* C31: a verify request of the owner for a transaction that is already
\* completed is answered at once with 200 (already completed), without
\* a gateway call and without a change to any transaction or any account;
\* this holds for every such verify, however many came before.
C31_VerifyCompletedIsReadOnly ==
    [][\A i \in 1..MaxReq :
         (/\ Len(procs) = i - 1
          /\ Len(procs') = i
          /\ procs'[i].kind = "verify"
          /\ FindTx(procs'[i].tid) # 0
          /\ txs[FindTx(procs'[i].tid)].user = procs'[i].caller
          /\ txs[FindTx(procs'[i].tid)].status = "completed")
         => (/\ procs'[i].pc = "done"
             /\ procs'[i].resp = 200
             /\ procs'[i].msg = "already_completed"
             /\ ~procs'[i].gateway
             /\ procs'[i].delta = 0
             /\ users' = users
             /\ txs' = txs)]_vars

C31_Witness ==
    /\ Len(procs) = 2
    /\ \A i \in 1..2 : /\ procs[i].kind = "verify"
                       /\ procs[i].msg = "already_completed"
                       /\ procs[i].tid = procs[1].tid
    /\ \A u \in Users : users[u].accountBalance = opening[u]

\* C32: whenever a step raises a user's accountBalance, the step is the
\* user.save() of a callback or verify invocation to which the gateway
\* answered '0000' in that same invocation, for a transaction of that user,
\* and the balance rises by exactly the amount of that transaction.
C32_CreditOnlyOnConfirmation ==
    [][ \A u \in Users :
          users'[u].accountBalance > users[u].accountBalance
          => \E i \in 1..Len(procs) :
                /\ procs[i].kind \in {"callback", "verify"}
                /\ procs[i].pc \in {"c_credit", "v_credit"}
                /\ procs'[i].pc # procs[i].pc
                /\ procs[i].outcome = "0000"
                /\ procs[i].doc.user = u
                /\ users'[u].accountBalance - users[u].accountBalance =
                      procs[i].doc.amount ]_vars

\* C33: a callback credits and completes a transaction only when the payment
\* the gateway confirmed is the one recorded on that transaction: the
\* paymentID of the request equals the stored paymentGateway.paymentId.  A
\* callback that names the transaction with the paymentID of another payment
\* never credits it.
C33_CallbackBoundToPayment ==
    \A i \in 1..Len(procs) :
        ( /\ procs[i].kind = "callback"
          /\ procs[i].delta > 0 )
        => procs[i].paymentID = txs[FindTx(procs[i].tid)].paymentId

\* C34: a stored transaction whose status is no longer pending never has
\* status pending again, whatever request is served afterwards.
C34_PendingNeverReturns ==
    [][ \A k \in 1..Len(txs) :
          txs[k].status # "pending" => txs'[k].status # "pending" ]_vars

\* a recharge stored the gateway's payment id on its transaction after a
\* callback for that transaction had already closed it
C34_Witness ==
    \E i, j \in 1..Len(procs) :
        /\ procs[i].kind = "recharge" /\ Done(i) /\ procs[i].resp = 200
        /\ procs[i].gateway
        /\ procs[j].kind = "callback" /\ Done(j)
        /\ procs[j].tid = CreatedId(i)
        /\ txs[FindTx(CreatedId(i))].status \in {"completed", "failed"}
        /\ txs[FindTx(CreatedId(i))].paymentId # Undefined

\* C35: the write of an unlock debit lowers the caller's stored accountBalance
\* by exactly the contact view cost and raises the stored totalSpent by
\* exactly the same figure, so the sum of the two is the same before and
\* after the write.
C35_DebitMovesFiveToSpent ==
    [][ \A i \in 1..Len(procs) :
          ( /\ procs[i].kind = "unlock"
            /\ procs[i].pc = "u_debit"
            /\ procs'[i].pc # "u_debit" )
          => /\ users'[procs[i].caller].accountBalance =
                   users[procs[i].caller].accountBalance - ContactViewCost
             /\ users'[procs[i].caller].totalSpent =
                   users[procs[i].caller].totalSpent + ContactViewCost ]_vars

\* C36: a step of a callback or verify handler changes no account but that of
\* the owner of the transaction it reconciles, and of that account only
\* accountBalance; a step of an unlock handler changes no account but the
\* caller's.  Every other user's fields, those of the owner of the unlocked
\* post included, are the same before and after the step.
C36_OnlyOwnAccountChanges ==
    [][ \A i \in 1..Len(procs) :
          procs'[i] # procs[i]
          => /\ procs[i].kind \in {"callback", "verify"}
                => /\ \A u \in Users \ {procs[i].doc.user} : users'[u] = users[u]
                   /\ \A u \in Users :
                        /\ users'[u].totalSpent = users[u].totalSpent
                        /\ users'[u].totalEarned = users[u].totalEarned
             /\ procs[i].kind = "unlock"
                => /\ \A u \in Users \ {procs[i].caller} : users'[u] = users[u]
                   /\ posts[procs[i].post].postedBy # procs[i].caller
                      => users'[posts[procs[i].post].postedBy] =
                            users[posts[procs[i].post].postedBy] ]_vars

\* a callback credited u1 and an unlock by u1 of a post of u2 debited u1, and
\* the account of u2 is as it was at creation
C36_Witness ==
    \E i, j \in 1..Len(procs) :
        /\ procs[i].kind = "unlock" /\ Done(i) /\ procs[i].delta < 0
        /\ posts[procs[i].post].postedBy # procs[i].caller
        /\ procs[j].kind = "callback" /\ Done(j) /\ procs[j].delta > 0
        /\ users[procs[i].caller] # NewUser
        /\ users[posts[procs[i].post].postedBy] = NewUser

\* C37: a recharge with payment method nagad or rocket, whose generated id no
\* other request drew, makes no gateway call and is answered 200; while no
\* callback names its transaction the document stays as inserted (pending,
\* no payment id, no balanceAfter), and a verify of it by its owner is answered
\* 200 without a gateway call and without a credit.
C37_OtherMethodsStayPending ==
    \A i \in 1..Len(procs) :
        ( /\ procs[i].kind = "recharge"
          /\ procs[i].method \in AcceptedMethods \ {"bkash"}
          /\ ValidRecharge(procs[i].amount, procs[i].method)
          /\ Done(i)
          /\ \A j \in 1..Len(procs) : j # i => procs[j].newId # CreatedId(i) )
        => /\ ~procs[i].gateway
           /\ procs[i].resp = 200 /\ procs[i].msg = "initiated"
           /\ FindTx(CreatedId(i)) # 0
           /\ (\A j \in 1..Len(procs) :
                  procs[j].kind = "callback" => procs[j].tid # CreatedId(i))
              => /\ txs[FindTx(CreatedId(i))] =
                       NewRechargeTransaction(CreatedId(i), procs[i].caller,
                           procs[i].amount, procs[i].method,
                           txs[FindTx(CreatedId(i))].balanceBefore)
                 /\ \A j \in 1..Len(procs) :
                       ( /\ procs[j].kind = "verify"
                         /\ procs[j].tid = CreatedId(i)
                         /\ procs[j].caller = procs[i].caller )
                       => /\ Done(j)
                          /\ procs[j].resp = 200 /\ procs[j].msg = "state"
                          /\ procs[j].found = "pending"
                          /\ ~procs[j].gateway
                          /\ procs[j].delta = 0

C37_Witness ==
    \E i, j \in 1..Len(procs) :
        /\ procs[i].kind = "recharge" /\ procs[i].method = "nagad"
        /\ procs[i].resp = 200
        /\ procs[j].kind = "verify" /\ procs[j].tid = CreatedId(i)
        /\ procs[j].resp = 200 /\ procs[j].found = "pending"
        /\ txs[FindTx(CreatedId(i))].status = "pending"
        /\ \A u \in Users : users[u].accountBalance = opening[u]

\* C39: the unlock keeps no record of entitlement.  Every unlock request whose
\* caller has a stored balance of at least the contact view cost when the
\* handler reads the account goes on to debit that cost, and its save() stores
\* the reduced balance: whether the caller already paid for the same post, and
\* whether the post is the caller's own, makes no difference.
C39_EveryUnlockDebits ==
    [][ \A i \in 1..Len(procs) :
          ( /\ procs[i].kind = "unlock"
            /\ procs'[i] # procs[i] )
          => /\ ( /\ procs[i].pc = "u_user"
                  /\ users[procs[i].caller].accountBalance >= ContactViewCost )
                => /\ procs'[i].pc = "u_debit"
                   /\ procs'[i].usr.accountBalance =
                         users[procs[i].caller].accountBalance - ContactViewCost
             /\ procs[i].pc = "u_debit"
                => /\ users'[procs[i].caller].accountBalance =
                         procs[i].usr.accountBalance
                   /\ procs'[i].delta = 0 - ContactViewCost ]_vars

\* u1 paid twice, one request after the other, for one post, which is u1's own
C39_Witness ==
    /\ Len(procs) = 2
    /\ \A i \in 1..2 : /\ procs[i].kind = "unlock" /\ Done(i)
                       /\ procs[i].caller = "u1"
                       /\ procs[i].post = procs[1].post
                       /\ posts[procs[i].post].postedBy = procs[i].caller
                       /\ procs[i].delta = 0 - ContactViewCost
    /\ users["u1"].accountBalance = opening["u1"] - 2 * ContactViewCost
    /\ users["u1"].totalSpent = 2 * ContactViewCost

\* C38: when every awaited store and gateway call returns or raises, each
\* recharge, callback, verify and unlock request received is eventually
\* answered, and it is answered once: a handler has sent no response before
\* it finishes, has sent one when it finishes, and takes no step afterwards.
C38_EveryRequestAnswered ==
    /\ \A i \in 1..MaxReq :
          (i <= Len(procs)) ~> (i <= Len(procs) /\ procs[i].pc = "done")
    /\ [](\A i \in 1..Len(procs) : (procs[i].pc = "done") <=> (procs[i].resp # 0))
    /\ [][ \A i \in 1..Len(procs) :
             procs[i].pc = "done" => procs'[i] = procs[i] ]_vars

\* all the requests of a run answered, one of each of two multi-step kinds
\* among them, after gateway calls that failed and that succeeded
C38_Witness ==
    /\ Len(procs) = MaxReq
    /\ \A i \in 1..Len(procs) : procs[i].pc = "done" /\ procs[i].resp # 0
    /\ \E i, j \in 1..Len(procs) :
          /\ procs[i].kind = "recharge" /\ procs[i].gateway /\ procs[i].resp = 500
          /\ procs[j].kind = "callback" /\ procs[j].gateway /\ procs[j].resp = 200

====
